---- MODULE Spec2Model ----
(***************************************************************************)
(* GreenWorks-HA: the polling coordinator (custom_components/greenworks/   *)
(* __init__.py), the config entry's setup and unload, and the read-time    *)
(* reconciliation of the lawn-mower, sensor and binary-sensor entities     *)
(* against the coordinator's device list.                                  *)
(*                                                                         *)
(* Python values are modelled as follows.  A string the code compares or   *)
(* tests for truth (sn, id, name) is a TLA+ string; None is NoneVal, a     *)
(* missing attribute is Missing, and "" is the empty string.  A string the *)
(* code searches (the free-text status) is a tuple of characters, so that  *)
(* lower() and the "in" operator are computed character by character.      *)
(***************************************************************************)
EXTENDS Integers, Sequences, FiniteSets, TLC

VARIABLES
    registry,             \* hass.data[DOMAIN]: the keys that hold a coordinator
    entry,                \* the config entry's state in the host
    setupPc,              \* position of async_setup_entry and the platform setups
    pollPc,               \* "idle", or "fetching" while api.get_devices runs in the executor
    pollKind,             \* who awaits the poll in flight: "first", "request" or "timer"
    data,                 \* coordinator.data (the published snapshot)
    last_update_success,  \* coordinator.last_update_success
    _mower,               \* coordinator._mower
    lmEntities,           \* the GreenWorksLawnMower entities, each by its self.mower
    sensorEntities,       \* the three sensor entities exist
    binaryEntities,       \* the two binary-sensor entities exist
    reported,             \* what the last setup or poll reported to the host
    lastApi,              \* history: the remote API's answer to the last completed poll
    lastGood,             \* history: the device list of the last poll the API answered well
    read                  \* the last value an entity or a platform read

vars == <<registry, entry, setupPc, pollPc, pollKind, data, last_update_success,
          _mower, lmEntities, sensorEntities, binaryEntities, reported,
          lastApi, lastGood, read>>

(***************************************************************************)
(* Python values                                                           *)
(***************************************************************************)
NoneVal == "<None>"
Missing == "<missing>"

\* getattr(obj, attr, None): a missing attribute reads as None.
GetAttr(v) == IF v = Missing THEN NoneVal ELSE v

\* The truth value of a string-or-None attribute.
Truthy(v) == v \notin {NoneVal, Missing, ""}

\* x or y
Or(x, y) == IF Truthy(x) THEN x ELSE y

\* coordinator.data: None before the first successful poll, else a list.
NoData == [isNone |-> TRUE, list |-> <<>>]
SomeData(l) == [isNone |-> FALSE, list |-> l]

\* "if not self.coordinator.data": None and the empty list are both false.
DataTruthy(d) == ~d.isNone /\ d.list # <<>>

(***************************************************************************)
(* const.py                                                                *)
(***************************************************************************)
IDLE == "idle"
MOWING == "mowing"
DOCKED == "docked"
PAUSED == "paused"
ERROR == "error"
LawnMowerActivity == {IDLE, MOWING, DOCKED, PAUSED, ERROR}

(***************************************************************************)
(* Text: lower() and substring search on tuples of characters              *)
(***************************************************************************)
Uppers == <<"A","B","C","D","E","F","G","H","I","J","K","L","M",
            "N","O","P","Q","R","S","T","U","V","W","X","Y","Z">>
Lowers == <<"a","b","c","d","e","f","g","h","i","j","k","l","m",
            "n","o","p","q","r","s","t","u","v","w","x","y","z">>

LowerChar(c) ==
    IF \E i \in 1..Len(Uppers) : Uppers[i] = c
    THEN Lowers[CHOOSE i \in 1..Len(Uppers) : Uppers[i] = c]
    ELSE c

\* str.lower()
Lower(s) == [i \in 1..Len(s) |-> LowerChar(s[i])]

\* sub in s
Contains(sub, s) ==
    \E i \in 0..(Len(s) - Len(sub)) : SubSeq(s, i + 1, i + Len(sub)) = sub

Digits == <<"0","1","2","3","4","5","6","7","8","9">>

RECURSIVE NatToStr(_)
\* str(n) of a natural number
NatToStr(n) ==
    IF n < 10 THEN <<Digits[n + 1]>>
    ELSE NatToStr(n \div 10) \o <<Digits[(n % 10) + 1]>>

kw_mowing == <<"m","o","w","i","n","g">>
kw_cutting == <<"c","u","t","t","i","n","g">>
kw_charging == <<"c","h","a","r","g","i","n","g">>
kw_docked == <<"d","o","c","k","e","d">>
kw_paused == <<"p","a","u","s","e","d">>
kw_stopped == <<"s","t","o","p","p","e","d">>

(***************************************************************************)
(* Device records (the vendor library's Mower objects)                     *)
(***************************************************************************)
\* operating_status.mower_main_state: None, an int, a MowerState enum member
\* (which has .value), or something that is no number (a string of digits).
StateNone == [t |-> "none", v |-> 0]
StateInt(n) == [t |-> "int", v |-> n]
StateEnum(n) == [t |-> "enum", v |-> n]
StateStr(n) == [t |-> "str", v |-> n]

\* mower.operating_status: a missing attribute, None, or an object that may or
\* may not have the attribute mower_main_state.
\* An operating status object also carries battery_status (a number, None, or
\* no such attribute) and next_start (a timestamp, None, or no such attribute).
NumNone == [t |-> "none", v |-> 0]
NumMissing == [t |-> "missing", v |-> 0]
NumInt(n) == [t |-> "int", v |-> n]

OsMissing == [t |-> "missing", hasState |-> FALSE, state |-> StateNone,
              battery_status |-> NumMissing, next_start |-> Missing]
OsNone == [t |-> "none", hasState |-> FALSE, state |-> StateNone,
           battery_status |-> NumMissing, next_start |-> Missing]
OsNoState == [t |-> "obj", hasState |-> FALSE, state |-> StateNone,
              battery_status |-> NumNone, next_start |-> NoneVal]
OsState(s) == [t |-> "obj", hasState |-> TRUE, state |-> s,
               battery_status |-> NumInt(80), next_start |-> "08:00"]

\* mower.properties: the frost and rain switches and the blade usage time.
Properties ==
    [is_frost_sensor_on |-> TRUE, is_rain_sensor_on |-> FALSE,
     device_blade_usage_time |-> 12]

\* mower.status: a missing attribute, None, a string, or a number.
StatusMissing == [t |-> "missing", s |-> <<>>, n |-> 0]
StatusNone == [t |-> "none", s |-> <<>>, n |-> 0]
StatusStr(s) == [t |-> "str", s |-> s, n |-> 0]
StatusInt(n) == [t |-> "int", s |-> <<>>, n |-> n]

Mower(sn, id, name, online, os, status) ==
    [sn |-> sn, id |-> id, name |-> name, is_online |-> online,
     operating_status |-> os, status |-> status, properties |-> Properties]

(***************************************************************************)
(* Reconciliation: lawn_mower.py                                           *)
(***************************************************************************)
\* The match test of the scan loops (lawn_mower.py 156-158, 242-244, 272-274):
\* equal non-empty sn, or equal non-empty id, or equal name.
LmMatches(m, self) ==
    \/ (GetAttr(m.sn) = GetAttr(self.sn) /\ Truthy(GetAttr(m.sn)))
    \/ (GetAttr(m.id) = GetAttr(self.id) /\ Truthy(GetAttr(m.id)))
    \/ m.name = self.name

\* The scan without its break: the last matching record wins.
LmCurrentIndexLast(self, list) ==
    IF \E i \in 1..Len(list) : LmMatches(list[i], self)
    THEN CHOOSE i \in 1..Len(list) :
            /\ LmMatches(list[i], self)
            /\ \A j \in (i + 1)..Len(list) : ~LmMatches(list[j], self)
    ELSE 0

\* The scan "for mower in self.coordinator.data: if ...: current_mower = mower;
\* break": the position of the first matching record, 0 when the loop ends
\* without one (current_mower stays None).
LmCurrentIndex(self, list) ==
    IF \E i \in 1..Len(list) : LmMatches(list[i], self)
    THEN CHOOSE i \in 1..Len(list) :
            /\ LmMatches(list[i], self)
            /\ \A j \in 1..(i - 1) : ~LmMatches(list[j], self)
    ELSE 0

\* state.value if hasattr(state, 'value') else state
StateValue(state) == IF state.t = "enum" THEN StateInt(state.v) ELSE state

\* CodeActivity without the branch for states 5 and 6.
CodeActivityNoTransit(sv) ==
    IF sv.t = "int" /\ sv.v = 4 THEN MOWING
    ELSE IF sv.t = "int" /\ sv.v = 7 THEN DOCKED
    ELSE IF sv.t = "int" /\ sv.v \in {1, 2, 3} THEN PAUSED
    ELSE IDLE

\* The if/elif chain on state_value (lawn_mower.py 191-201).
CodeActivity(sv) ==
    IF sv.t = "int" /\ sv.v = 4 THEN MOWING
    ELSE IF sv.t = "int" /\ sv.v = 7 THEN DOCKED
    ELSE IF sv.t = "int" /\ sv.v \in {1, 2, 3} THEN PAUSED
    ELSE IF sv.t = "int" /\ sv.v \in {5, 6} THEN DOCKED
    ELSE IDLE

\* status = getattr(current_mower, 'status', '') or ''; then status.lower() for
\* a str and str(status).lower() for anything else (lawn_mower.py 208-212).
FallbackStatus(m) ==
    CASE m.status.t = "str" -> Lower(m.status.s)
      [] m.status.t = "int" ->
            IF m.status.n = 0 THEN <<>> ELSE Lower(NatToStr(m.status.n))
      [] OTHER -> <<>>

\* The if/elif chain on the lower-cased status (lawn_mower.py 216-223).
TextActivity(status) ==
    IF Contains(kw_mowing, status) \/ Contains(kw_cutting, status) THEN MOWING
    ELSE IF Contains(kw_charging, status) \/ Contains(kw_docked, status) THEN DOCKED
    ELSE IF Contains(kw_paused, status) \/ Contains(kw_stopped, status) THEN PAUSED
    ELSE IDLE

\* Whether the integer-code branch returns: operating_status is truthy and has
\* the attribute mower_main_state (lawn_mower.py 171-177).
HasStateCode(m) ==
    m.operating_status.t = "obj" /\ m.operating_status.hasState

\* RecordActivity that goes on to the free-text status when the state code is
\* none of 1..7, instead of returning IDLE.
RecordActivityFallThrough(m) ==
    IF HasStateCode(m) /\ CodeActivity(StateValue(m.operating_status.state)) # IDLE
    THEN CodeActivity(StateValue(m.operating_status.state))
    ELSE TextActivity(FallbackStatus(m))

\* activity of the matched record (lawn_mower.py 170-223).
RecordActivity(m) ==
    IF HasStateCode(m)
    THEN CodeActivity(StateValue(m.operating_status.state))
    ELSE TextActivity(FallbackStatus(m))

\* NoMowerActivity that returns None.
NoMowerActivityNone == NoneVal

\* What activity returns when there is nothing to read or no record matches
\* (lawn_mower.py 147, 164).
NoMowerActivity == IDLE

\* GreenWorksLawnMower.activity
activity(self, d) ==
    IF ~DataTruthy(d) THEN NoMowerActivity
    ELSE LET i == LmCurrentIndex(self, d.list)
         IN  IF i = 0 THEN NoMowerActivity ELSE RecordActivity(d.list[i])

\* The record a lawn-mower property reads: the scan is skipped when the data
\* is None or empty (lawn_mower.py 236-237, 266-267), and its result is the
\* position of the first match, 0 for None.
LmCurrentMower(self, d) ==
    IF DataTruthy(d) THEN LmCurrentIndex(self, d.list) ELSE 0

\* GreenWorksLawnMower.battery_level: the raw battery_status of the matched
\* record's operating status, None when there is none.
battery_level(self, d) ==
    LET i == LmCurrentMower(self, d)
    IN  IF i = 0 THEN NumNone
        ELSE LET os == d.list[i].operating_status
             IN  IF os.t = "obj" /\ os.battery_status.t # "missing"
                 THEN os.battery_status
                 ELSE NumNone

\* GreenWorksLawnMower.available: coordinator.last_update_success, whatever
\* the data holds.
LmAvailable(self, d, lus) == lus

\* The dict extra_state_attributes returns: keys is the set of keys present,
\* and a key that is not present keeps a default of its type.
NoAttributes ==
    [keys |-> {}, serial_number |-> NoneVal, device_id |-> NoneVal,
     is_online |-> FALSE, battery_level |-> NumNone, mower_state |-> StateNone,
     next_start |-> NoneVal, frost_sensor |-> FALSE, rain_sensor |-> FALSE,
     blade_usage_time |-> 0]

\* str() of a timestamp-or-None.
StrOfOptional(v) == IF v = NoneVal THEN "None" ELSE v

\* The attributes built from one record (lawn_mower.py 280-330).
RecordAttributes(m) ==
    LET os == m.operating_status
        osTruthy == os.t = "obj"
    IN  [keys |-> ((IF m.sn # Missing THEN {"serial_number"} ELSE {})
                   \cup (IF m.id # Missing THEN {"device_id"} ELSE {})
                   \cup {"is_online"}
                   \cup (IF osTruthy /\ os.battery_status.t # "missing"
                         THEN {"battery_level"} ELSE {})
                   \cup (IF osTruthy /\ os.hasState THEN {"mower_state"} ELSE {})
                   \cup (IF osTruthy /\ os.next_start # Missing
                         THEN {"next_start"} ELSE {})
                   \cup {"frost_sensor", "rain_sensor", "blade_usage_time"}),
         serial_number |-> IF m.sn # Missing THEN m.sn ELSE NoneVal,
         device_id |-> IF m.id # Missing THEN m.id ELSE NoneVal,
         is_online |-> m.is_online,
         battery_level |-> IF osTruthy /\ os.battery_status.t # "missing"
                           THEN os.battery_status ELSE NumNone,
         mower_state |-> IF osTruthy /\ os.hasState
                         THEN (IF os.state.t = "enum" THEN StateInt(os.state.v)
                               ELSE os.state)
                         ELSE StateNone,
         next_start |-> IF osTruthy /\ os.next_start # Missing
                        THEN StrOfOptional(os.next_start) ELSE NoneVal,
         frost_sensor |-> m.properties.is_frost_sensor_on,
         rain_sensor |-> m.properties.is_rain_sensor_on,
         blade_usage_time |-> m.properties.device_blade_usage_time]

\* GreenWorksLawnMower.extra_state_attributes
extra_state_attributes(self, d) ==
    LET i == LmCurrentMower(self, d)
    IN  IF i = 0 THEN NoAttributes ELSE RecordAttributes(d.list[i])

\* What the host reads of a lawn-mower entity when it writes its state.
LawnMowerState(self, d, lus) ==
    [available |-> LmAvailable(self, d, lus),
     activity |-> activity(self, d),
     battery_level |-> battery_level(self, d),
     extra_state_attributes |-> extra_state_attributes(self, d)]

\* serial_num / identifier of a lawn-mower entity: getattr(mower, 'sn', None)
\* or getattr(mower, 'id', None) or mower.name, of the record the entity was
\* created with.
LmIdentifier(m) == Or(GetAttr(m.sn), Or(GetAttr(m.id), m.name))

\* _attr_unique_id = f"greenworks_{serial_num}"
LmUniqueId(m) == <<"greenworks", StrOfOptional(LmIdentifier(m))>>

\* device_info["identifiers"] = {(DOMAIN, str(serial_num))}
LmDeviceIdentifier(m) == <<"greenworks", StrOfOptional(LmIdentifier(m))>>

\* The vendor operation each control action calls.
RemoteOperation(action) ==
    CASE action = "start_mowing" -> "start_mowing"
      [] action = "pause" -> "pause_mowing"
      [] action = "dock" -> "return_to_dock"

ControlActions == {"start_mowing", "pause", "dock"}

\* A control action without the try/except: the exception reaches the host.
ControlActionPropagates(self, action, raises) ==
    [calls |-> <<[operation |-> RemoteOperation(action),
                  identifier |-> LmIdentifier(self)]>>,
     returned |-> IF raises THEN "raised" ELSE "normal"]

\* start_mowing, pause and dock: the calls made on the vendor API and how the
\* action returns to the host, given whether the vendor call raises. The
\* except clause logs and falls through.
ControlAction(self, action, raises) ==
    [calls |-> <<[operation |-> RemoteOperation(action),
                  identifier |-> LmIdentifier(self)]>>,
     returned |-> "normal"]

\* self.mower after a property was read, rebound to the record the scan found.
MowerAfterReadRebound(self, d) ==
    IF LmCurrentMower(self, d) # 0 THEN d.list[LmCurrentMower(self, d)] ELSE self

\* self.mower after a property was read: the scans bind the local
\* current_mower, self.mower is assigned in __init__ only.
MowerAfterRead(self, d) == self

(***************************************************************************)
(* Reconciliation: sensor.py and binary_sensor.py                          *)
(***************************************************************************)
\* _current_mower of _GreenWorksBaseSensor and of _GreenWorksBaseBinary: the
\* position of the first record whose name is the configured name, 0 for None.
SensorCurrentIndex(mower_name, d) ==
    LET list == IF DataTruthy(d) THEN d.list ELSE <<>>
    IN  IF \E i \in 1..Len(list) : GetAttr(list[i].name) = mower_name
        THEN CHOOSE i \in 1..Len(list) :
                /\ GetAttr(list[i].name) = mower_name
                /\ \A j \in 1..(i - 1) : GetAttr(list[j].name) # mower_name
        ELSE 0

\* The record _current_mower returns, as a position in the data.
SensorMower(mower_name, d) ==
    IF SensorCurrentIndex(mower_name, d) = 0 THEN NoneVal
    ELSE d.list[SensorCurrentIndex(mower_name, d)]

\* available of _GreenWorksBaseSensor: the coordinator's last_update_success
\* (the host's CoordinatorEntity.available) and the matched record's
\* is_online, False when no record matches.
SensorAvailable(mower_name, d, lus) ==
    LET base_available == lus
        mower_online == IF SensorCurrentIndex(mower_name, d) # 0
                        THEN SensorMower(mower_name, d).is_online
                        ELSE FALSE
    IN  base_available /\ mower_online

\* available of _GreenWorksBaseBinary (binary_sensor.py 53-58), the same code.
BinaryAvailable(mower_name, d, lus) ==
    LET base_available == lus
        mower_online == IF SensorCurrentIndex(mower_name, d) # 0
                        THEN SensorMower(mower_name, d).is_online
                        ELSE FALSE
    IN  base_available /\ mower_online

\* GreenWorksBatterySensor.native_value: None without a record, an operating
\* status or a value, and for a value outside 0..100.
BatteryNativeValue(mower_name, d) ==
    IF SensorCurrentIndex(mower_name, d) = 0 THEN NumNone
    ELSE LET os == SensorMower(mower_name, d).operating_status
         IN  IF os.t # "obj" THEN NumNone
             ELSE IF os.battery_status.t # "int" THEN NumNone
             ELSE IF os.battery_status.v < 0 \/ os.battery_status.v > 100 THEN NumNone
             ELSE os.battery_status

\* GreenWorksNextStartSensor.native_value
NextStartNativeValue(mower_name, d) ==
    IF SensorCurrentIndex(mower_name, d) = 0 THEN NoneVal
    ELSE LET os == SensorMower(mower_name, d).operating_status
         IN  IF os.t # "obj" THEN NoneVal ELSE GetAttr(os.next_start)

\* A str-or-None result whose text is a tuple of characters.
TextNone == [t |-> "none", s |-> <<>>]
Text(s) == [t |-> "str", s |-> s]

\* GreenWorksBladeUsageSensor.native_value: str() of the usage time.
BladeUsageNativeValue(mower_name, d) ==
    IF SensorCurrentIndex(mower_name, d) = 0 THEN TextNone
    ELSE Text(NatToStr(SensorMower(mower_name, d).properties.device_blade_usage_time))

\* bool() of a switch, as the state the host shows.
OnOff(b) == IF b THEN "on" ELSE "off"

\* GreenWorksFrostSensor.is_on and GreenWorksRainSensor.is_on
FrostIsOn(mower_name, d) ==
    IF SensorCurrentIndex(mower_name, d) = 0 THEN NoneVal
    ELSE OnOff(SensorMower(mower_name, d).properties.is_frost_sensor_on)

RainIsOn(mower_name, d) ==
    IF SensorCurrentIndex(mower_name, d) = 0 THEN NoneVal
    ELSE OnOff(SensorMower(mower_name, d).properties.is_rain_sensor_on)

\* What the host reads of the sensor and binary-sensor entities of a name when
\* it writes their states.
SensorStates(mower_name, d, lus) ==
    [available |-> SensorAvailable(mower_name, d, lus),
     binary_available |-> BinaryAvailable(mower_name, d, lus),
     battery |-> BatteryNativeValue(mower_name, d),
     next_start |-> NextStartNativeValue(mower_name, d),
     blade_usage |-> BladeUsageNativeValue(mower_name, d),
     frost |-> FrostIsOn(mower_name, d),
     rain |-> RainIsOn(mower_name, d)]

\* uid of a sensor or binary sensor: getattr(mower, "sn", None) or
\* getattr(mower, "id", mower_name). The default of the second getattr is used
\* only when the record has no attribute id (or there is no record).
SensorUid(mower_name, d) ==
    IF SensorCurrentIndex(mower_name, d) = 0 THEN mower_name
    ELSE LET m == SensorMower(mower_name, d)
         IN  Or(GetAttr(m.sn), IF m.id = Missing THEN mower_name ELSE m.id)

\* _attr_unique_id = f"{uid}_battery" (and _next_start, _blade_usage, _frost,
\* _rain).
SensorUniqueId(mower_name, d, suffix) ==
    <<StrOfOptional(SensorUid(mower_name, d)), suffix>>

\* device_info["identifiers"] of the sensors and binary sensors.
SensorDeviceIdentifier(mower_name, d) ==
    <<"greenworks", StrOfOptional(SensorUid(mower_name, d))>>

(***************************************************************************)
(* The coordinator: __init__.py                                            *)
(***************************************************************************)
\* entry.data[CONF_MOWER_NAME], the display name chosen in the config flow.
ConfiguredName == "Backyard"
Names == {"Backyard", "Front"}

\* The key of the coordinator in hass.data[DOMAIN] (__init__.py 32, 45).
CoordinatorKey(name) == <<"coordinator", name>>

\* GreenWorksDataCoordinator.mower
mower(d) == IF DataTruthy(d) THEN d.list ELSE <<>>

\* The remote API's answers to get_devices: a device list, the unauthorized
\* condition, a KeyError from a malformed response, or any other error.
ApiOk(devices) == [kind |-> "ok", devices |-> devices]
ApiRaises(kind) == [kind |-> kind, devices |-> <<>>]
ApiErrors == {"unauthorized", "keyerror", "error"}

\* Whether every record of a device list has the attribute name, which
\* _async_update_data reads of each (__init__.py 74).
WellFormed(devices) == \A i \in 1..Len(devices) : devices[i].name # Missing

\* coordinator._mower after _async_update_data: assigned when get_devices
\* returns (__init__.py 73), before the names are read.
MowerFieldAfter(outcome, old) ==
    IF outcome.kind = "ok" THEN SomeData(outcome.devices) ELSE old

\* UpdateData that answers a KeyError with an empty device list.
UpdateDataKeyErrorEmpty(outcome) ==
    IF outcome.kind = "ok" /\ WellFormed(outcome.devices)
    THEN [raised |-> "none", value |-> outcome.devices]
    ELSE IF outcome.kind = "keyerror"
    THEN [raised |-> "none", value |-> <<>>]
    ELSE [raised |-> "UpdateFailed", value |-> <<>>]

\* UpdateData that returns the list while it is being filled: its first record.
UpdateDataPartial(outcome) ==
    IF outcome.kind = "ok" /\ WellFormed(outcome.devices)
    THEN [raised |-> "none",
          value |-> IF Len(outcome.devices) > 1
                    THEN <<outcome.devices[1]>> ELSE outcome.devices]
    ELSE [raised |-> "UpdateFailed", value |-> <<>>]

\* _async_update_data: returns the fetched list, or raises UpdateFailed for a
\* KeyError and for every other exception, the unauthorized one included.
UpdateData(outcome) ==
    IF outcome.kind = "ok" /\ WellFormed(outcome.devices)
    THEN [raised |-> "none", value |-> outcome.devices]
    ELSE [raised |-> "UpdateFailed", value |-> <<>>]

\* What a refresh reports to the host for the result of _async_update_data:
\* the periodic and the requested refresh log UpdateFailed, the first refresh
\* turns it into ConfigEntryNotReady, and ConfigEntryAuthFailed passes through.
Reported(kind, raised) ==
    CASE raised = "none" -> "ok"
      [] raised = "ConfigEntryAuthFailed" -> "ConfigEntryAuthFailed"
      [] kind = "first" -> "ConfigEntryNotReady"
      [] OTHER -> "UpdateFailed"

\* The host's name for an answer of the API, for the history variable lastApi.
ApiAnswer(outcome) ==
    IF outcome.kind = "ok" /\ ~WellFormed(outcome.devices) THEN "malformed"
    ELSE outcome.kind

(***************************************************************************)
(* The device lists the remote API returns                                 *)
(***************************************************************************)
MaxDevices == 2

\* The records of the account's devices: the configured mower, mowing and
\* online or charging and offline, and a second mower.
SysRecords ==
    { Mower("SN1", NoneVal, "Backyard", TRUE, OsState(StateInt(4)), StatusMissing),
      Mower("SN1", NoneVal, "Backyard", FALSE, OsState(StateInt(7)), StatusMissing),
      Mower("SN2", NoneVal, "Front", TRUE, OsState(StateInt(4)), StatusMissing) }

\* A record that lacks the attribute name.
Nameless ==
    Mower("SN1", NoneVal, Missing, TRUE, OsState(StateInt(4)), StatusMissing)

SeqsUpTo(S, n) == UNION { [1..k -> S] : k \in 0..n }

SysOutcomes ==
    { ApiOk(l) : l \in SeqsUpTo(SysRecords, MaxDevices) \cup {<<Nameless>>} }
        \cup { ApiRaises(k) : k \in ApiErrors }

NoRead == [kind |-> "none", who |-> NoneVal, value |-> NoneVal]

(***************************************************************************)
(* Setup and unload of the config entry                                    *)
(***************************************************************************)
Init ==
    /\ registry = {}
    /\ entry = "not_loaded"
    /\ setupPc = "idle"
    /\ pollPc = "idle"
    /\ pollKind = "none"
    /\ data = NoData
    /\ last_update_success = TRUE
    /\ _mower = NoData
    /\ lmEntities = {}
    /\ sensorEntities = FALSE
    /\ binaryEntities = FALSE
    /\ reported = "none"
    /\ lastApi = "none"
    /\ lastGood = NoData
    /\ read = NoRead

\* async_setup_entry up to the await of the GreenWorksAPI constructor
\* (__init__.py 20-27).  The host sets an entry up when it is not loaded, and
\* again after ConfigEntryNotReady or a reload.
SetupStart ==
    /\ entry \in {"not_loaded", "setup_retry", "setup_error"}
    /\ setupPc = "idle"
    /\ pollPc = "idle"
    /\ setupPc' = "api"
    /\ entry' = "setup_in_progress"
    /\ lastApi' = "none"
    /\ UNCHANGED <<registry, pollPc, pollKind, data, last_update_success, _mower,
                   lmEntities, sensorEntities, binaryEntities, reported,
                   lastGood, read>>

\* The constructor returns: the coordinator is made and registered, and the
\* first refresh starts (__init__.py 31-34).
SetupApiOk ==
    /\ setupPc = "api"
    /\ registry' = registry \cup {CoordinatorKey(ConfiguredName)}
    /\ data' = NoData
    /\ last_update_success' = TRUE
    /\ _mower' = NoData
    /\ lastGood' = NoData
    /\ setupPc' = "first_refresh"
    /\ pollPc' = "fetching"
    /\ pollKind' = "first"
    /\ UNCHANGED <<entry, lmEntities, sensorEntities, binaryEntities, reported,
                   lastApi, read>>

\* The constructor raises UnauthorizedException: ConfigEntryAuthFailed
\* (__init__.py 28-29).
SetupApiUnauthorized ==
    /\ setupPc = "api"
    /\ setupPc' = "idle"
    /\ entry' = "setup_error"
    /\ reported' = "ConfigEntryAuthFailed"
    /\ UNCHANGED <<registry, pollPc, pollKind, data, last_update_success, _mower,
                   lmEntities, sensorEntities, binaryEntities, lastApi, lastGood, read>>

\* The constructor raises anything else: the exception leaves async_setup_entry.
SetupApiError ==
    /\ setupPc = "api"
    /\ setupPc' = "idle"
    /\ entry' = "setup_error"
    /\ reported' = "Exception"
    /\ UNCHANGED <<registry, pollPc, pollKind, data, last_update_success, _mower,
                   lmEntities, sensorEntities, binaryEntities, lastApi, lastGood, read>>

\* SetupAfterPoll that forwards to the platforms after a failed first refresh.
SetupAfterPollNoAbort(kind, ok) ==
    CASE kind = "first" -> "lawn_mower"
      [] kind = "request" -> "lm_entities"
      [] OTHER -> setupPc

\* Where async_setup_entry and the platform setups continue after the poll
\* they await: a failed first refresh raises out of async_setup_entry
\* (__init__.py 34), a successful one lets it forward to the platforms (36);
\* the refresh lawn_mower.py 32 asks for returns either way.
SetupAfterPoll(kind, ok) ==
    CASE kind = "first" /\ ok -> "lawn_mower"
      [] kind = "first" -> "idle"
      [] kind = "request" -> "lm_entities"
      [] OTHER -> setupPc

EntryAfterPoll(kind, ok) ==
    IF kind = "first" /\ ~ok THEN "setup_retry" ELSE entry

\* A refresh completes: get_devices has answered in the executor, and
\* _async_update_data and the coordinator's bookkeeping run without yielding.
PollFinish(outcome) ==
    /\ pollPc = "fetching"
    /\ LET r == UpdateData(outcome)
           ok == r.raised = "none"
       IN  /\ _mower' = MowerFieldAfter(outcome, _mower)
           /\ data' = IF ok THEN SomeData(r.value) ELSE data
           /\ last_update_success' = ok
           /\ reported' = Reported(pollKind, r.raised)
           /\ setupPc' = SetupAfterPoll(pollKind, ok)
           /\ entry' = EntryAfterPoll(pollKind, ok)
    /\ lastApi' = ApiAnswer(outcome)
    /\ lastGood' = IF ApiAnswer(outcome) = "ok"
                   THEN SomeData(outcome.devices) ELSE lastGood
    /\ pollPc' = "idle"
    /\ pollKind' = "none"
    /\ UNCHANGED <<registry, lmEntities, sensorEntities, binaryEntities, read>>

\* The coordinator's timer fires (update_interval, __init__.py 58) while the
\* entry is loaded and no refresh is running.
TimerPoll ==
    /\ entry = "loaded"
    /\ pollPc = "idle"
    /\ pollPc' = "fetching"
    /\ pollKind' = "timer"
    /\ UNCHANGED <<registry, entry, setupPc, data, last_update_success, _mower,
                   lmEntities, sensorEntities, binaryEntities, reported,
                   lastApi, lastGood, read>>

\* The entities lawn_mower.async_setup_entry adds: one for each record of
\* coordinator.mower whose name is the configured one (lawn_mower.py 36-51).
LawnMowerEntitiesOf(d) ==
    { mower(d)[i] : i \in { j \in 1..Len(mower(d)) : mower(d)[j].name = ConfiguredName } }

\* lawn_mower.async_setup_entry with data: the entities are added at once.
LawnMowerSetup ==
    /\ setupPc = "lawn_mower"
    /\ DataTruthy(data)
    /\ lmEntities' = LawnMowerEntitiesOf(data)
    /\ setupPc' = "sensor"
    /\ UNCHANGED <<registry, entry, pollPc, pollKind, data, last_update_success,
                   _mower, sensorEntities, binaryEntities, reported,
                   lastApi, lastGood, read>>

\* lawn_mower.async_setup_entry without data: it asks for a refresh and
\* awaits it (lawn_mower.py 30-32).
LawnMowerSetupRefresh ==
    /\ setupPc = "lawn_mower"
    /\ ~DataTruthy(data)
    /\ pollPc = "idle"
    /\ pollPc' = "fetching"
    /\ pollKind' = "request"
    /\ setupPc' = "lm_refresh"
    /\ UNCHANGED <<registry, entry, data, last_update_success, _mower,
                   lmEntities, sensorEntities, binaryEntities, reported,
                   lastApi, lastGood, read>>

\* ... and adds the entities after it (lawn_mower.py 34-51).
LawnMowerSetupAfterRefresh ==
    /\ setupPc = "lm_entities"
    /\ lmEntities' = LawnMowerEntitiesOf(data)
    /\ setupPc' = "sensor"
    /\ UNCHANGED <<registry, entry, pollPc, pollKind, data, last_update_success,
                   _mower, sensorEntities, binaryEntities, reported,
                   lastApi, lastGood, read>>

\* sensor.async_setup_entry: the battery, next-start and blade-usage sensors.
SensorSetup ==
    /\ setupPc = "sensor"
    /\ CoordinatorKey(ConfiguredName) \in registry
    /\ sensorEntities' = TRUE
    /\ setupPc' = "binary_sensor"
    /\ UNCHANGED <<registry, entry, pollPc, pollKind, data, last_update_success,
                   _mower, lmEntities, binaryEntities, reported,
                   lastApi, lastGood, read>>

\* binary_sensor.async_setup_entry: the frost and rain sensors; then
\* async_setup_entry returns True (__init__.py 38).
BinarySensorSetup ==
    /\ setupPc = "binary_sensor"
    /\ CoordinatorKey(ConfiguredName) \in registry
    /\ binaryEntities' = TRUE
    /\ setupPc' = "idle"
    /\ entry' = "loaded"
    /\ UNCHANGED <<registry, pollPc, pollKind, data, last_update_success,
                   _mower, lmEntities, sensorEntities, reported,
                   lastApi, lastGood, read>>

\* async_unload_entry when the platforms unload: the host removes the
\* entities and the coordinator leaves the registry (__init__.py 43-47).
UnloadOk ==
    /\ entry = "loaded"
    /\ pollPc = "idle"
    /\ registry' = registry \ {CoordinatorKey(ConfiguredName)}
    /\ lmEntities' = {}
    /\ sensorEntities' = FALSE
    /\ binaryEntities' = FALSE
    /\ entry' = "not_loaded"
    /\ read' = NoRead
    /\ UNCHANGED <<setupPc, pollPc, pollKind, data, last_update_success, _mower,
                   reported, lastApi, lastGood>>

\* async_unload_entry when async_unload_platforms returns False.
UnloadFailed ==
    /\ entry = "loaded"
    /\ pollPc = "idle"
    /\ entry' = "failed_unload"
    /\ UNCHANGED <<registry, setupPc, pollPc, pollKind, data, last_update_success,
                   _mower, lmEntities, sensorEntities, binaryEntities, reported,
                   lastApi, lastGood, read>>

(***************************************************************************)
(* Entity reads                                                            *)
(***************************************************************************)
\* An entity or a platform reads the coordinator's device list.
ReadData ==
    /\ sensorEntities \/ binaryEntities \/ lmEntities # {}
    /\ read' = [kind |-> "data", who |-> NoneVal, value |-> mower(data)]
    /\ UNCHANGED <<registry, entry, setupPc, pollPc, pollKind, data,
                   last_update_success, _mower, lmEntities, sensorEntities,
                   binaryEntities, reported, lastApi, lastGood>>

\* The host reads the activity of a lawn-mower entity.
ReadActivity(self) ==
    /\ self \in lmEntities
    /\ read' = [kind |-> "activity", who |-> self, value |-> activity(self, data)]
    /\ UNCHANGED <<registry, entry, setupPc, pollPc, pollKind, data,
                   last_update_success, _mower, lmEntities, sensorEntities,
                   binaryEntities, reported, lastApi, lastGood>>

\* The host writes the state of a lawn-mower entity: it reads available,
\* activity, battery_level and extra_state_attributes.
ReadLawnMower(self) ==
    /\ self \in lmEntities
    /\ read' = [kind |-> "lawn_mower", who |-> self,
                value |-> LawnMowerState(self, data, last_update_success)]
    /\ lmEntities' = (lmEntities \ {self}) \cup {MowerAfterRead(self, data)}
    /\ UNCHANGED <<registry, entry, setupPc, pollPc, pollKind, data,
                   last_update_success, _mower, sensorEntities,
                   binaryEntities, reported, lastApi, lastGood>>

\* The host writes the states of the sensor and binary-sensor entities.
ReadSensors ==
    /\ sensorEntities /\ binaryEntities
    /\ read' = [kind |-> "sensors", who |-> ConfiguredName,
                value |-> SensorStates(ConfiguredName, data, last_update_success)]
    /\ UNCHANGED <<registry, entry, setupPc, pollPc, pollKind, data,
                   last_update_success, _mower, lmEntities, sensorEntities,
                   binaryEntities, reported, lastApi, lastGood>>

Next ==
    \/ SetupStart
    \/ SetupApiOk
    \/ SetupApiUnauthorized
    \/ SetupApiError
    \/ \E outcome \in SysOutcomes : PollFinish(outcome)
    \/ TimerPoll
    \/ LawnMowerSetup
    \/ LawnMowerSetupRefresh
    \/ LawnMowerSetupAfterRefresh
    \/ SensorSetup
    \/ BinarySensorSetup
    \/ UnloadOk
    \/ UnloadFailed
    \/ ReadData
    \/ \E self \in lmEntities : ReadActivity(self)
    \/ \E self \in lmEntities : ReadLawnMower(self)
    \/ ReadSensors

Spec == Init /\ [][Next]_vars

(***************************************************************************)
(* Reads of a loaded entry against every shape of record                   *)
(***************************************************************************)
MaxCode == 8

\* The free-text statuses tried: "", "Mowing", "CUTTING", "charging",
\* "Docked", "paused", "Stopped", "returning", "error", "standby",
\* "paused mowing", "error charging", "Returning Error".
StatusTexts ==
    { <<>>,
      <<"M","o","w","i","n","g">>,
      <<"C","U","T","T","I","N","G">>,
      <<"c","h","a","r","g","i","n","g">>,
      <<"D","o","c","k","e","d">>,
      <<"p","a","u","s","e","d">>,
      <<"S","t","o","p","p","e","d">>,
      <<"r","e","t","u","r","n","i","n","g">>,
      <<"e","r","r","o","r">>,
      <<"s","t","a","n","d","b","y">>,
      <<"p","a","u","s","e","d"," ","m","o","w","i","n","g">>,
      <<"e","r","r","o","r"," ","c","h","a","r","g","i","n","g">>,
      <<"R","e","t","u","r","n","i","n","g"," ","E","r","r","o","r">> }

Statuses ==
    {StatusMissing, StatusNone, StatusInt(0), StatusInt(5), StatusInt(40)}
        \cup { StatusStr(t) : t \in StatusTexts }

MainStates ==
    {StateNone, StateStr(4)}
        \cup { StateInt(n) : n \in (-1)..MaxCode }
        \cup { StateEnum(n) : n \in 1..7 }

OperatingStatuses ==
    {OsMissing, OsNone, OsNoState} \cup { OsState(st) : st \in MainStates }

\* The record the lawn-mower entity was made from, and another device.
SelfMower ==
    Mower("SN1", NoneVal, ConfiguredName, TRUE, OsState(StateInt(7)), StatusMissing)
OtherMower ==
    Mower("SN2", NoneVal, "Front", TRUE, OsState(StateInt(4)), StatusStr(kw_mowing))

ShapeRecords ==
    { Mower("SN1", NoneVal, ConfiguredName, TRUE, os, st) :
        os \in OperatingStatuses, st \in Statuses }

\* The device lists read: nothing, the empty list, the other device alone,
\* and the configured device in every shape, first or after the other device.
ShapeData ==
    {NoData, SomeData(<<>>), SomeData(<<OtherMower>>)}
        \cup { SomeData(<<m>>) : m \in ShapeRecords }
        \cup { SomeData(<<OtherMower, m>>) : m \in ShapeRecords }

\* A loaded entry whose coordinator holds the device list d and whose
\* lawn-mower entity was made from the record self.
Loaded(self, d) ==
    /\ registry = {CoordinatorKey(ConfiguredName)}
    /\ entry = "loaded"
    /\ setupPc = "idle"
    /\ pollPc = "idle"
    /\ pollKind = "none"
    /\ data = d
    /\ last_update_success = TRUE
    /\ _mower = d
    /\ lmEntities = {self}
    /\ sensorEntities = TRUE
    /\ binaryEntities = TRUE
    /\ reported = "ok"
    /\ lastApi = "ok"
    /\ lastGood = d
    /\ read = NoRead

InitActivity == \E d \in ShapeData : Loaded(SelfMower, d)

NextActivity == \E self \in lmEntities : ReadActivity(self)

SpecActivity == InitActivity /\ [][NextActivity]_vars

(***************************************************************************)
(* Reads of a loaded entry against every identity of record                *)
(***************************************************************************)
IdentityRecords ==
    { Mower(sn, id, n, TRUE, OsState(StateInt(4)), StatusMissing) :
        sn \in {Missing, "", "SN1", "SN2"}, id \in {NoneVal, "ID1"}, n \in Names }

\* A sensor or binary-sensor entity looks its record up.
ReadCurrentMower ==
    /\ sensorEntities \/ binaryEntities
    /\ read' = [kind |-> "current_mower", who |-> ConfiguredName,
                value |-> SensorCurrentIndex(ConfiguredName, data)]
    /\ UNCHANGED <<registry, entry, setupPc, pollPc, pollKind, data,
                   last_update_success, _mower, lmEntities, sensorEntities,
                   binaryEntities, reported, lastApi, lastGood>>

\* The host registers the entities: it reads the unique id and the device
\* identifier of the lawn-mower entity.
ReadLawnMowerIdentity(self) ==
    /\ self \in lmEntities
    /\ read' = [kind |-> "lawn_mower_identity", who |-> self,
                value |-> [unique_id |-> LmUniqueId(self),
                           device_identifier |-> LmDeviceIdentifier(self)]]
    /\ UNCHANGED <<registry, entry, setupPc, pollPc, pollKind, data,
                   last_update_success, _mower, lmEntities, sensorEntities,
                   binaryEntities, reported, lastApi, lastGood>>

\* The same for the battery sensor, which is constructed against the data
\* that are read here.
ReadSensorIdentity ==
    /\ sensorEntities
    /\ read' = [kind |-> "sensor_identity", who |-> ConfiguredName,
                value |-> [unique_id |-> SensorUniqueId(ConfiguredName, data, "battery"),
                           device_identifier |-> SensorDeviceIdentifier(ConfiguredName, data)]]
    /\ UNCHANGED <<registry, entry, setupPc, pollPc, pollKind, data,
                   last_update_success, _mower, lmEntities, sensorEntities,
                   binaryEntities, reported, lastApi, lastGood>>

\* The host calls start_mowing, pause or dock of a lawn-mower entity and the
\* vendor call succeeds or raises.
Control(self, action, raises) ==
    /\ self \in lmEntities
    /\ read' = [kind |-> "control", who |-> self,
                value |-> [action |-> action, raises |-> raises,
                           result |-> ControlAction(self, action, raises)]]
    /\ UNCHANGED <<registry, entry, setupPc, pollPc, pollKind, data,
                   last_update_success, _mower, lmEntities, sensorEntities,
                   binaryEntities, reported, lastApi, lastGood>>

InitMatch ==
    \E self \in { m \in IdentityRecords : m.name = ConfiguredName } :
        \E d \in {NoData} \cup { SomeData(l) : l \in SeqsUpTo(IdentityRecords, MaxDevices) } :
            Loaded(self, d)

NextMatch ==
    \/ \E self \in lmEntities : ReadActivity(self)
    \/ ReadCurrentMower
    \/ \E self \in lmEntities : ReadLawnMower(self)
    \/ ReadSensors

SpecMatch == InitMatch /\ [][NextMatch]_vars

(***************************************************************************)
(* Registration and control of a loaded entry, for every identity of the   *)
(* entity's record and of the one record in the data                       *)
(***************************************************************************)
InitControl ==
    \E self \in { m \in IdentityRecords : m.name = ConfiguredName } :
        \E d \in {NoData} \cup { SomeData(<<m>>) : m \in IdentityRecords } :
            Loaded(self, d)

NextControl ==
    \/ \E self \in lmEntities : ReadLawnMowerIdentity(self)
    \/ ReadSensorIdentity
    \/ \E self \in lmEntities, action \in ControlActions, raises \in BOOLEAN :
          Control(self, action, raises)

SpecControl == InitControl /\ [][NextControl]_vars

(***************************************************************************)
(* Properties                                                              *)
(***************************************************************************)
PollFailures == {"UpdateFailed", "ConfigEntryNotReady"}

\* C1: a poll the remote API fails (an error raised by get_devices, or a
\* record with a missing field) is reported as failed and leaves the published
\* snapshot as it was: after any sequence of polls coordinator.data is the
\* list of the most recent poll the API answered well.
C1_FailedPollKeepsSnapshot ==
    /\ data = lastGood
    /\ lastApi \notin {"none", "ok"} =>
            /\ reported \in PollFailures
            /\ ~last_update_success

\* A periodic poll failed with a KeyError after an earlier poll had published
\* a device list, which is still the coordinator's data.
C1_Witness ==
    /\ lastApi = "keyerror"
    /\ reported = "UpdateFailed"
    /\ DataTruthy(data)
    /\ data = lastGood

\* C2: a poll the remote API answers with its unauthorized condition is
\* reported to the host as ConfigEntryAuthFailed, never as the generic
\* UpdateFailed or ConfigEntryNotReady.
C2_UnauthorizedIsAuthFailed ==
    lastApi = "unauthorized" => reported = "ConfigEntryAuthFailed"

\* C3: every read of the device list observes the complete list of the most
\* recent successful poll: the previous one while a poll is in flight, the new
\* one from the moment it is published, never a part or a mixture.
C3_AtomicPublish ==
    [][ReadData => read'.value = mower(lastGood)]_vars

\* An entity read a complete list, and a poll has since published another.
C3_Witness ==
    /\ read.kind = "data"
    /\ Len(read.value) = 2
    /\ DataTruthy(data)
    /\ read.value # data.list

EntitiesExist == lmEntities # {} \/ sensorEntities \/ binaryEntities

\* C4: an entity exists only after the first poll of its coordinator has
\* completed successfully; while the first poll is awaited, and after it has
\* failed, the entry has no entity.
C4_FirstPollBeforeEntities ==
    /\ EntitiesExist => (~data.isNone /\ lastApi # "none")
    /\ (setupPc \in {"api", "first_refresh"} \/ entry = "setup_retry") => ~EntitiesExist

\* The entry is loaded with a lawn-mower entity and its sensors.
C4_Witness ==
    /\ entry = "loaded"
    /\ lmEntities # {}
    /\ sensorEntities
    /\ binaryEntities

\* An activity read whose entity found its record in the device list.
ActivityReadOfRecord ==
    /\ read.kind = "activity"
    /\ DataTruthy(data)
    /\ LmCurrentIndex(read.who, data.list) # 0

\* The record that read matched.
ReadRecord == data.list[LmCurrentIndex(read.who, data.list)]

\* The table of section 4.3 on a state code: an int or an enum member's value.
C5_Table(state) ==
    CASE state.t \in {"int", "enum"} /\ state.v \in {1, 2, 3} -> PAUSED
      [] state.t \in {"int", "enum"} /\ state.v = 4 -> MOWING
      [] state.t \in {"int", "enum"} /\ state.v \in {5, 6, 7} -> DOCKED
      [] OTHER -> IDLE

CodeKeywords ==
    {kw_mowing, kw_cutting, kw_charging, kw_docked, kw_paused, kw_stopped}

\* The record's status is a string that holds one of the keywords.
HasKeyword(m) ==
    /\ m.status.t = "str"
    /\ \E k \in CodeKeywords : Contains(k, Lower(m.status.s))

\* C5 as stated: PAUSED for codes 1-3, MOWING for 4, DOCKED for 5-7, and IDLE
\* for any other code and for a record without a code.
C5_CodeTableOrIdle ==
    ActivityReadOfRecord =>
        read.value = IF HasStateCode(ReadRecord)
                     THEN C5_Table(ReadRecord.operating_status.state)
                     ELSE IDLE

\* C5 as amended: the table holds of every record whose operating status has
\* the state code, a null or non-integer code giving IDLE; a record without
\* the state code is IDLE when its free-text status holds no keyword.
C5_CodeTable ==
    ActivityReadOfRecord =>
        /\ HasStateCode(ReadRecord) =>
                read.value = C5_Table(ReadRecord.operating_status.state)
        /\ (~HasStateCode(ReadRecord) /\ ~HasKeyword(ReadRecord)) => read.value = IDLE

\* The activity of a record in state 6, searching for the charging station,
\* was read as DOCKED.
C5_Witness ==
    /\ ActivityReadOfRecord
    /\ HasStateCode(ReadRecord)
    /\ ReadRecord.operating_status.state = StateInt(6)
    /\ read.value = DOCKED

\* The two keywords of section 4.3 that lawn_mower.py does not look for.
kw_returning == <<"r","e","t","u","r","n","i","n","g">>
kw_error == <<"e","r","r","o","r">>

\* The free-text mapping of section 4.3, first matching rule first.
C6_Table(status) ==
    IF Contains(kw_mowing, status) \/ Contains(kw_cutting, status) THEN MOWING
    ELSE IF Contains(kw_charging, status) \/ Contains(kw_docked, status) THEN DOCKED
    ELSE IF Contains(kw_paused, status) \/ Contains(kw_stopped, status) THEN PAUSED
    ELSE IF Contains(kw_returning, status) THEN DOCKED
    ELSE IF Contains(kw_error, status) THEN ERROR
    ELSE IDLE

\* C6: without a state code the activity is that of the free-text mapping:
\* mowing/cutting, charging/docked, paused/stopped, returning, error, else IDLE.
C6_FreeTextTable ==
    (ActivityReadOfRecord /\ ~HasStateCode(ReadRecord)) =>
        read.value = C6_Table(FallbackStatus(ReadRecord))

\* C7: the activity of a record that has a state code is the same whatever
\* its free-text status is; the status decides only without a state code.
C7_CodeIsAuthoritative ==
    (ActivityReadOfRecord /\ HasStateCode(ReadRecord)) =>
        \A st \in Statuses :
            RecordActivity([ReadRecord EXCEPT !.status = st]) = read.value

\* A record in state 0 whose status says "Mowing" was read as IDLE.
C7_Witness ==
    /\ ActivityReadOfRecord
    /\ ReadRecord.operating_status = OsState(StateInt(0))
    /\ ReadRecord.status = StatusStr(<<"M","o","w","i","n","g">>)
    /\ read.value = IDLE

\* C8: a read of the activity yields one of the five activities, whatever the
\* device list and the shape of the record, and changes nothing but the value
\* handed to the reader.
C8_ActivityTotalAndPure ==
    [][read' # read =>
        /\ read'.kind = "activity"
        /\ read'.value \in LawnMowerActivity
        /\ UNCHANGED <<registry, entry, setupPc, pollPc, pollKind, data,
                       last_update_success, _mower, lmEntities, sensorEntities,
                       binaryEntities, reported, lastApi, lastGood>>]_vars

\* The activity of a record whose operating status is None and whose status
\* is a number was read, after another device in the list, as IDLE.
C8_Witness ==
    /\ ActivityReadOfRecord
    /\ Len(data.list) = 2
    /\ ReadRecord.operating_status = OsNone
    /\ ReadRecord.status = StatusInt(5)
    /\ read.value = IDLE

\* Both records have a non-empty sn, or both have a non-empty id.
BothHaveSerialOrId(m, self) ==
    \/ (Truthy(GetAttr(m.sn)) /\ Truthy(GetAttr(self.sn)))
    \/ (Truthy(GetAttr(m.id)) /\ Truthy(GetAttr(self.id)))

\* Two records agree on a non-empty sn or on a non-empty id.
SameSerialOrId(m, self) ==
    \/ (GetAttr(m.sn) = GetAttr(self.sn) /\ Truthy(GetAttr(m.sn)))
    \/ (GetAttr(m.id) = GetAttr(self.id) /\ Truthy(GetAttr(m.id)))

\* C9: when the entity's device and a record of the list both have a
\* serial/ID, the record matches exactly if the serial/IDs agree; the name
\* decides only otherwise.  Stated of the list an activity read scanned.
C9_SerialBeforeName ==
    read.kind = "activity" =>
        \A i \in 1..Len(mower(data)) :
            BothHaveSerialOrId(mower(data)[i], read.who) =>
                (LmMatches(mower(data)[i], read.who)
                    <=> SameSerialOrId(mower(data)[i], read.who))

\* C10: the lawn-mower entity and the sensor and binary-sensor entities of
\* the configured device take the same record of the list for the device.
\* Stated of the record a sensor's lookup returned.
C10_OneRecordForAllEntities ==
    read.kind = "current_mower" =>
        \A self \in lmEntities : LmCurrentIndex(self, mower(data)) = read.value

\* A step in which the host reads the state of a lawn-mower entity, and one
\* in which it reads the states of the sensors.
LawnMowerRead == read' # read /\ read'.kind = "lawn_mower"
SensorsRead == read' # read /\ read'.kind = "sensors"

\* Every value a sensor or binary sensor shows is unknown.
SensorValuesUnknown(v) ==
    /\ v.battery = NumNone
    /\ v.next_start = NoneVal
    /\ v.blade_usage = TextNone
    /\ v.frost = NoneVal
    /\ v.rain = NoneVal

\* C11: whenever the coordinator's data are None or empty, or hold no record
\* that matches the configured device, every entity of the device that is
\* read reports available = False, the lawn mower's activity is IDLE and the
\* sensors' values are unknown.
C11_NoRecordMeansUnavailable ==
    [][ /\ (LawnMowerRead /\ LmCurrentMower(read'.who, data) = 0) =>
                /\ ~read'.value.available
                /\ read'.value.activity = IDLE
                /\ read'.value.battery_level = NumNone
        /\ (SensorsRead /\ SensorCurrentIndex(read'.who, data) = 0) =>
                /\ ~read'.value.available
                /\ ~read'.value.binary_available
                /\ SensorValuesUnknown(read'.value) ]_vars

\* The record each kind of entity reads, when there is one.
LmRecord(self, d) == d.list[LmCurrentMower(self, d)]

\* C12: when the matched record has is_online = False, every entity of the
\* device that is read reports available = False; when it has is_online =
\* True and the last poll succeeded, every entity reports available = True.
C12_OnlineFlagIsAvailability ==
    [][ /\ (LawnMowerRead /\ LmCurrentMower(read'.who, data) # 0) =>
                /\ ~LmRecord(read'.who, data).is_online => ~read'.value.available
                /\ (LmRecord(read'.who, data).is_online /\ last_update_success)
                        => read'.value.available
        /\ (SensorsRead /\ SensorCurrentIndex(read'.who, data) # 0) =>
                /\ ~SensorMower(read'.who, data).is_online =>
                        (~read'.value.available /\ ~read'.value.binary_available)
                /\ (SensorMower(read'.who, data).is_online /\ last_update_success)
                        => (read'.value.available /\ read'.value.binary_available)
      ]_vars

\* The last poll failed with an error that is not the unauthorized one.
GenericFailure == lastApi \notin {"none", "ok", "unauthorized"}

\* The availability computed from a snapshot alone: a record matches and its
\* is_online is True.
OnlineIn(i, d) == i # 0 /\ d.list[i].is_online

\* C13 as stated: after a poll failed with a generic error, an entity that is
\* read shows the activity, values and attributes of the last snapshot that
\* was fetched, and its availability is the is_online flag of the record
\* matched in that snapshot, not False because of the failure.
C13_StaleAvailabilityFromSnapshot ==
    [][ /\ (LawnMowerRead /\ GenericFailure) =>
                /\ read'.value.activity = activity(read'.who, lastGood)
                /\ read'.value.battery_level = battery_level(read'.who, lastGood)
                /\ read'.value.extra_state_attributes
                        = extra_state_attributes(read'.who, lastGood)
                /\ read'.value.available
                        = OnlineIn(LmCurrentMower(read'.who, lastGood), lastGood)
        /\ (SensorsRead /\ GenericFailure) =>
                /\ read'.value.battery = BatteryNativeValue(read'.who, lastGood)
                /\ read'.value.available
                        = OnlineIn(SensorCurrentIndex(read'.who, lastGood), lastGood)
      ]_vars

\* The vendor operation that corresponds to each control action.
C14_Operation ==
    [start_mowing |-> "start_mowing", pause |-> "pause_mowing",
     dock |-> "return_to_dock"]

\* C14: a control action (start mowing, pause, return to dock) makes exactly
\* one call, of the corresponding vendor operation with the identifier of the
\* entity's device; whether or not the call raises, the action returns
\* normally, and it changes neither the coordinator's data nor the entity's
\* availability or activity.
C14_ControlCallsOnceAndSwallows ==
    [][ (read' # read /\ read'.kind = "control") =>
            LET v == read'.value
            IN  /\ Len(v.result.calls) = 1
                /\ v.result.calls[1].operation = C14_Operation[v.action]
                /\ v.result.calls[1].identifier = LmIdentifier(read'.who)
                /\ v.result.returned = "normal"
                /\ UNCHANGED <<data, lastGood, last_update_success, _mower,
                               lmEntities, reported, entry, registry>>
                /\ activity(read'.who, data') = activity(read'.who, data)
                /\ LmAvailable(read'.who, data', last_update_success')
                        = LmAvailable(read'.who, data, last_update_success)
      ]_vars

\* The host called dock, the vendor call raised, and the action returned
\* normally after its one call.
C14_Witness ==
    /\ read.kind = "control"
    /\ read.value.action = "dock"
    /\ read.value.raises
    /\ read.value.result.returned = "normal"
    /\ Len(read.value.result.calls) = 1

\* Position i holds the first record of the list that matches the entity's
\* record, and the first record that has the given name.
FirstLmMatch(i, self, list) ==
    /\ i \in 1..Len(list)
    /\ LmMatches(list[i], self)
    /\ \A j \in 1..(i - 1) : ~LmMatches(list[j], self)

FirstNamed(i, name, list) ==
    /\ i \in 1..Len(list)
    /\ list[i].name = name
    /\ \A j \in 1..(i - 1) : list[j].name # name

\* No record of the list has the entity's non-empty serial number or ID.
NoSharedSerialOrId(self, list) ==
    \A i \in 1..Len(list) :
        /\ ~(Truthy(GetAttr(self.sn)) /\ GetAttr(list[i].sn) = GetAttr(self.sn))
        /\ ~(Truthy(GetAttr(self.id)) /\ GetAttr(list[i].id) = GetAttr(self.id))

\* C15: the record an entity reads is the first record, in the order of the
\* coordinator's data, that matches it: the attributes of a lawn-mower entity
\* are those of the first matching record, and the sensors' record is the
\* first one with the configured name. In particular, when no record shares
\* a serial number or ID with the lawn-mower entity, it reads the first
\* record with its name, whatever records stand before it.
C15_FirstMatchInSnapshotOrder ==
    /\ (read.kind = "lawn_mower" /\ DataTruthy(data)) =>
            \A i \in 1..Len(data.list) :
                /\ FirstLmMatch(i, read.who, data.list) =>
                        read.value.extra_state_attributes
                            = RecordAttributes(data.list[i])
                /\ (NoSharedSerialOrId(read.who, data.list)
                        /\ FirstNamed(i, read.who.name, data.list)) =>
                        read.value.extra_state_attributes
                            = RecordAttributes(data.list[i])
    /\ (read.kind = "current_mower" /\ DataTruthy(data)) =>
            \A i \in 1..Len(data.list) :
                FirstNamed(i, read.who, data.list) => read.value = i

\* A lawn-mower entity was read against two records, none of which shares a
\* serial number or ID with it: the first has another name and another serial
\* number than the second, the second has the entity's name, and the
\* attributes read are those of the second.
C15_Witness ==
    /\ read.kind = "lawn_mower"
    /\ Len(data.list) = 2
    /\ NoSharedSerialOrId(read.who, data.list)
    /\ data.list[1].name # read.who.name
    /\ data.list[2].name = read.who.name
    /\ GetAttr(data.list[1].sn) # GetAttr(data.list[2].sn)
    /\ read.value.extra_state_attributes = RecordAttributes(data.list[2])

\* The first non-empty value of (serial number, ID, name) of a record.
FirstNonEmpty(m) ==
    IF Truthy(m.sn) THEN m.sn
    ELSE IF Truthy(m.id) THEN m.id
    ELSE m.name

\* C16: the identity of an entity (its unique id, its device identifier and
\* the identifier its control actions forward) is the first non-empty value
\* of serial number, ID and name of its device record: the record a
\* lawn-mower entity was created with, the record a sensor matches.
C16_IdentityIsFirstNonEmpty ==
    /\ read.kind = "lawn_mower_identity" =>
            /\ read.value.unique_id = <<"greenworks", FirstNonEmpty(read.who)>>
            /\ read.value.device_identifier = <<"greenworks", FirstNonEmpty(read.who)>>
    /\ read.kind = "control" =>
            read.value.result.calls[1].identifier = FirstNonEmpty(read.who)
    /\ (read.kind = "sensor_identity" /\ SensorCurrentIndex(read.who, data) # 0) =>
            /\ read.value.unique_id
                    = <<FirstNonEmpty(SensorMower(read.who, data)), "battery">>
            /\ read.value.device_identifier
                    = <<"greenworks", FirstNonEmpty(SensorMower(read.who, data))>>

\* A step in which the host reads activity, availability and attributes of
\* an entity.
EntityRead ==
    /\ read' # read
    /\ read'.kind \in {"activity", "lawn_mower", "sensors", "current_mower"}

\* C17: reading an entity changes nothing but what the host has read: not the
\* coordinator's data, not its success flag, not the entities; and a read
\* that follows a read of the same entity against the same data returns the
\* same activity, availability, values and attributes.
C17_ReadsAreIdempotentAndReadOnly ==
    [][ EntityRead =>
            /\ UNCHANGED <<data, lastGood, _mower, last_update_success,
                           lmEntities, sensorEntities, binaryEntities,
                           registry, entry>>
            /\ (read.kind = read'.kind /\ read.who = read'.who) =>
                    read'.value = read.value
      ]_vars

\* A lawn-mower entity was read whose record is matched: it is MOWING,
\* available, and its attributes carry the serial number.
C17_Witness ==
    /\ read.kind = "lawn_mower"
    /\ LmCurrentMower(read.who, data) # 0
    /\ read.value.activity = MOWING
    /\ read.value.available
    /\ "serial_number" \in read.value.extra_state_attributes.keys
    /\ read.who \in lmEntities

\* C18: the registry holds the coordinator of a mower name only while the
\* entry of that name is being set up or is set up (an entry whose unload
\* failed is still set up): after a setup that failed, and after an unload
\* that succeeded, no coordinator is registered for the name.
C18_RegisteredOnlyWhileSetUp ==
    CoordinatorKey(ConfiguredName) \in registry =>
        entry \in {"setup_in_progress", "loaded", "failed_unload"}

=============================================================================
